---- MODULE Spec2Model ----
(***************************************************************************)
(* Model of sample_catalog_download.py: getsourcelist builds the HLA       *)
(* catalog URL by string concatenation, issues one blocking GET through    *)
(* urlopen, reads the body and decodes it as UTF-8; the module calls it    *)
(* once and prints the result.                                             *)
(*                                                                         *)
(* A Python str is a sequence of one-character strings, a bytes object a   *)
(* sequence of integers 0..255, a decoded text a sequence of code points.  *)
(* An optional value is <<>> (absent) or <<v>>.                            *)
(***************************************************************************)
EXTENDS Integers, Sequences, FiniteSets, TLC

\* ------------------------------------------------------------- bounds
\* Calls made by a caller that uses getsourcelist as a function.
MaxCalls == 2
\* Response bodies are all byte strings over ByteSample up to this length
\* (and the bodies of ExtraBodies).
MaxBodyLen == 2

\* ---------------------------------------------------- string literals
\* "http://hla.stsci.edu/HLA/Catalogs/HLAcat.aspx?CATALOG="  (line 21)
UrlPrefix == <<"h","t","t","p",":","/","/","h","l","a",".","s","t","s","c","i",".","e","d","u","/","H","L","A","/","C","a","t","a","l","o","g","s","/","H","L","A","c","a","t",".","a","s","p","x","?","C","A","T","A","L","O","G","=">>
\* "&FORMAT="  (line 21)
FormatKey == <<"&","F","O","R","M","A","T","=">>
\* "&IMAGE="  (line 21)
ImageKey == <<"&","I","M","A","G","E","=">>
\* '&IGNOREFLAG=T'  (line 23)
IgnoreFlag == <<"&","I","G","N","O","R","E","F","L","A","G","=","T">>
\* Mutation: the default catalog is "SEX".
DefaultCatalogSex == <<"S","E","X">>
\* catalog="DAO"  (line 11)
DefaultCatalog == <<"D","A","O">>
\* format="text"  (line 11)
DefaultFormat == <<"t","e","x","t">>
\* trimmed=True  (line 11)
DefaultTrimmed == TRUE
\* "hst_8992_52_acs_wfc_f606w"  (line 27)
ScriptImage == <<"h","s","t","_","8","9","9","2","_","5","2","_","a","c","s","_","w","f","c","_","f","6","0","6","w">>

None == <<>>
Some(v) == <<v>>

\* ------------------------------------------------------------- inputs
\* What a caller may pass: documented and undocumented values, the empty
\* string, and strings that hold URL metacharacters or the flag itself.
ImageSample == {ScriptImage, <<>>, <<"i","&","I","G","N","O","R","E","F","L","A","G","=","T">>}
CatalogSample == {DefaultCatalog, <<"S","E","X">>, <<"X"," ","Z">>}
FormatSample == {DefaultFormat, <<"j","s","o","n">>, <<"j","&","I","G","N","O","R","E","F","L","A","G","=","T","%">>}

\* Keyword arguments are given or left out.
ArgSets ==
    [image : ImageSample,
     catalog : {None} \cup {Some(c) : c \in CatalogSample},
     format : {None} \cup {Some(f) : f \in FormatSample},
     trimmed : {None, Some(TRUE), Some(FALSE)}]

\* getsourcelist("hst_8992_52_acs_wfc_f606w")  (line 27)
ScriptArgs == [image |-> ScriptImage, catalog |-> None, format |-> None, trimmed |-> None]

\* Bytes the transport may deliver: ASCII 'a', the two bytes of U+00E9,
\* a lone continuation byte.
ByteSample == {97, 195, 169, 128}

RECURSIVE SeqsUpTo(_, _)
SeqsUpTo(S, n) ==
    IF n = 0 THEN {<<>>}
    ELSE LET shorter == SeqsUpTo(S, n - 1)
         IN  shorter \cup {Append(s, x) : s \in {t \in shorter : Len(t) = n - 1}, x \in S}

\* b"abc", U+20AC, a BOM before 'a', U+1F600, an encoded surrogate, an
\* overlong NUL, a byte that never occurs in UTF-8, a code point above
\* U+10FFFF, a truncated three-byte sequence after 'a'.
ExtraBodies ==
    {<<97, 98, 99>>, <<226, 130, 172>>, <<239, 187, 191, 97>>,
     <<240, 159, 152, 128>>, <<237, 160, 128>>, <<192, 128>>, <<255>>,
     <<244, 144, 128, 128>>, <<97, 226, 130>>}

Bodies == SeqsUpTo(ByteSample, MaxBodyLen) \cup ExtraBodies

\* Faults urlopen(url).read() raises.
Faults == {"URLError", "timeout"}

Pending == [kind |-> "pending", bytes |-> <<>>, err |-> "none"]
BodyResp(b) == [kind |-> "body", bytes |-> b, err |-> "none"]
FaultResp(e) == [kind |-> "fault", bytes |-> <<>>, err |-> e]

\* -------------------------------------------------------------- state
VARIABLES
    caller,     \* "module": the file is run as a script; "harness": getsourcelist is called by a caller
    pc,         \* the interpreter's position
    args,       \* the arguments of the current call, as passed
    image, catalog, format, trimmed,   \* the parameters of getsourcelist, bound
    url,        \* local url
    data,       \* local data (bytes)
    ret,        \* the value returned by the current call, None until it returns
    exc,        \* the exception the current call raised, "none" otherwise
    resp,       \* what the transport has answered to the pending GET
    sent,       \* the URL of the last GET handed to urlopen
    gets,       \* the GETs issued during the current call
    ngets,      \* the GETs issued since the start
    ncalls,     \* the calls of getsourcelist since the start
    stdout      \* the text written to standard output

vars == <<caller, pc, args, image, catalog, format, trimmed, url, data, ret, exc,
          resp, sent, gets, ngets, ncalls, stdout>>

locals == <<image, catalog, format, trimmed, url, data>>
env == <<resp, sent, gets, ngets>>

Init ==
    /\ caller \in {"module", "harness"}
    /\ pc = IF caller = "module" THEN "L27" ELSE "idle"
    /\ args = ScriptArgs
    /\ image = <<>> /\ catalog = <<>> /\ format = <<>> /\ trimmed = TRUE
    /\ url = <<>> /\ data = <<>>
    /\ ret = None /\ exc = "none"
    /\ resp = Pending /\ sent = None
    /\ gets = 0 /\ ngets = 0 /\ ncalls = 0
    /\ stdout = <<>>

\* ------------------------------------------------------ pure functions
\* A keyword argument left out takes its default (line 11).
Bound(opt, default) == IF opt = None THEN default ELSE opt[1]

\* Mutation: IMAGE is written before FORMAT.
Line21UrlSwapped(cat, fmt, img) ==
    UrlPrefix \o cat \o ImageKey \o img \o FormatKey \o fmt

\* line 21: the URL before the flag
Line21Url(cat, fmt, img) == UrlPrefix \o cat \o FormatKey \o fmt \o ImageKey \o img

\* Mutation: the test is "if trimmed".
NotTrimmedInverted(t) == t

\* line 22: if not trimmed
NotTrimmed(t) == ~t

\* line 23: url + '&IGNOREFLAG=T'
Line23Url(u) == u \o IgnoreFlag

\* bytes.decode('UTF-8'), errors='strict': the decoder reads one sequence at
\* a time from its lead byte, and accepts neither overlong forms, nor
\* surrogates, nor code points above U+10FFFF, nor truncated sequences.
IsContinuation(b) == b >= 128 /\ b <= 191

DecodeError == [ok |-> FALSE, text |-> <<>>]

RECURSIVE Utf8DecodeFrom(_, _, _)
Utf8DecodeFrom(b, i, acc) ==
    IF i > Len(b) THEN [ok |-> TRUE, text |-> acc]
    ELSE
      LET b1 == b[i]
          left == Len(b) - i + 1
          lo2 == IF b1 = 224 THEN 160 ELSE IF b1 = 240 THEN 144 ELSE 128
          hi2 == IF b1 = 237 THEN 159 ELSE IF b1 = 244 THEN 143 ELSE 191
      IN  CASE b1 <= 127 ->
                 Utf8DecodeFrom(b, i + 1, Append(acc, b1))
            [] b1 >= 194 /\ b1 <= 223 ->
                 IF left >= 2 /\ IsContinuation(b[i + 1])
                 THEN Utf8DecodeFrom(b, i + 2,
                        Append(acc, (b1 - 192) * 64 + (b[i + 1] - 128)))
                 ELSE DecodeError
            [] b1 >= 224 /\ b1 <= 239 ->
                 IF /\ left >= 3
                    /\ b[i + 1] >= lo2 /\ b[i + 1] <= hi2
                    /\ IsContinuation(b[i + 2])
                 THEN Utf8DecodeFrom(b, i + 3,
                        Append(acc, (b1 - 224) * 4096 + (b[i + 1] - 128) * 64
                                    + (b[i + 2] - 128)))
                 ELSE DecodeError
            [] b1 >= 240 /\ b1 <= 244 ->
                 IF /\ left >= 4
                    /\ b[i + 1] >= lo2 /\ b[i + 1] <= hi2
                    /\ IsContinuation(b[i + 2])
                    /\ IsContinuation(b[i + 3])
                 THEN Utf8DecodeFrom(b, i + 4,
                        Append(acc, (b1 - 240) * 262144 + (b[i + 1] - 128) * 4096
                                    + (b[i + 2] - 128) * 64 + (b[i + 3] - 128)))
                 ELSE DecodeError
            [] OTHER -> DecodeError

\* Mutation: errors='replace', a body that does not decode gives U+FFFD.
DecodeReplace(b) ==
    LET r == Utf8DecodeFrom(b, 1, <<>>)
    IN  IF r.ok THEN r ELSE [ok |-> TRUE, text |-> <<65533>>]

\* Mutation: 'utf-8-sig', a leading byte order mark is dropped.
DecodeSig(b) ==
    IF Len(b) >= 3 /\ SubSeq(b, 1, 3) = <<239, 187, 191>>
    THEN Utf8DecodeFrom(b, 4, <<>>)
    ELSE Utf8DecodeFrom(b, 1, <<>>)

\* line 25: data.decode('UTF-8')
Decode(b) == Utf8DecodeFrom(b, 1, <<>>)

\* ------------------------------------------------------------ actions
\* Entering getsourcelist (line 11): the parameters are bound, the other
\* locals do not exist yet.
Call(a) ==
    /\ args' = a
    /\ image' = a.image
    /\ catalog' = Bound(a.catalog, DefaultCatalog)
    /\ format' = Bound(a.format, DefaultFormat)
    /\ trimmed' = Bound(a.trimmed, DefaultTrimmed)
    /\ url' = <<>> /\ data' = <<>>
    /\ ncalls' = ncalls + 1
    /\ pc' = "L21"

\* What is observed of one call starts empty: no value returned, nothing
\* raised, no GET issued, no answer from the transport.
NewCall ==
    /\ ret' = None /\ exc' = "none"
    /\ gets' = 0
    /\ resp' = Pending

\* Mutation: a catalog other than "DAO" and "SEX" is rejected.
BuildUrlChecked ==
    /\ pc = "L21"
    /\ IF catalog \in {<<"D","A","O">>, <<"S","E","X">>}
       THEN /\ url' = UrlPrefix \o catalog \o FormatKey \o format \o ImageKey \o image
            /\ exc' = exc
            /\ pc' = "L22"
       ELSE /\ url' = url
            /\ exc' = "ValueError"
            /\ pc' = "raised"
    /\ UNCHANGED <<caller, args, image, catalog, format, trimmed, data, ret,
                   env, ncalls, stdout>>

\* line 21
BuildUrl ==
    /\ pc = "L21"
    /\ url' = Line21Url(catalog, format, image)
    /\ pc' = "L22"
    /\ UNCHANGED <<caller, args, image, catalog, format, trimmed, data, ret, exc,
                   env, ncalls, stdout>>

\* line 22
TestTrimmed ==
    /\ pc = "L22"
    /\ pc' = IF NotTrimmed(trimmed) THEN "L23" ELSE "L24"
    /\ UNCHANGED <<caller, args, locals, ret, exc, env, ncalls, stdout>>

\* line 23
AppendIgnoreFlag ==
    /\ pc = "L23"
    /\ url' = Line23Url(url)
    /\ pc' = "L24"
    /\ UNCHANGED <<caller, args, image, catalog, format, trimmed, data, ret, exc,
                   env, ncalls, stdout>>

\* Mutation: a URL equal to the last one fetched is served from a cache.
UrlopenCached ==
    /\ pc = "L24"
    /\ IF sent = Some(url)
       THEN /\ data' = <<>>
            /\ pc' = "L25"
            /\ UNCHANGED env
       ELSE /\ sent' = Some(url)
            /\ gets' = gets + 1
            /\ ngets' = ngets + 1
            /\ resp' = Pending
            /\ data' = data
            /\ pc' = "L24wait"
    /\ UNCHANGED <<caller, args, image, catalog, format, trimmed, url, ret, exc,
                   ncalls, stdout>>

\* line 24, urlopen(url): the GET is handed to the transport and the
\* thread blocks.
Urlopen ==
    /\ pc = "L24"
    /\ sent' = Some(url)
    /\ gets' = gets + 1
    /\ ngets' = ngets + 1
    /\ resp' = Pending
    /\ pc' = "L24wait"
    /\ UNCHANGED <<caller, args, locals, ret, exc, ncalls, stdout>>

\* The server answers: urlopen(url).read() will give these bytes.
TransportRespond(b) ==
    /\ pc = "L24wait"
    /\ resp = Pending
    /\ resp' = BodyResp(b)
    /\ UNCHANGED <<caller, pc, args, locals, ret, exc, sent, gets, ngets, ncalls, stdout>>

\* The transport fails: urlopen(url).read() will raise.
TransportRaise(e) ==
    /\ pc = "L24wait"
    /\ resp = Pending
    /\ resp' = FaultResp(e)
    /\ UNCHANGED <<caller, pc, args, locals, ret, exc, sent, gets, ngets, ncalls, stdout>>

\* Mutation: a fault is retried once before it is let through.
ResumeRetry ==
    /\ pc = "L24wait"
    /\ resp # Pending
    /\ IF resp.kind = "body"
       THEN /\ data' = resp.bytes
            /\ pc' = "L25"
            /\ UNCHANGED <<exc, env>>
       ELSE IF gets < 2
       THEN /\ gets' = gets + 1
            /\ ngets' = ngets + 1
            /\ resp' = Pending
            /\ UNCHANGED <<pc, data, exc, sent>>
       ELSE /\ exc' = resp.err
            /\ pc' = "raised"
            /\ UNCHANGED <<data, env>>
    /\ UNCHANGED <<caller, args, image, catalog, format, trimmed, url, ret,
                   ncalls, stdout>>

\* Mutation: urlopen is given a timeout, the wait ends on its own.
ResumeTimeout ==
    /\ pc = "L24wait"
    /\ IF resp.kind = "body"
       THEN /\ data' = resp.bytes
            /\ pc' = "L25"
            /\ exc' = exc
       ELSE /\ data' = data
            /\ exc' = IF resp = Pending THEN "timeout" ELSE resp.err
            /\ pc' = "raised"
    /\ UNCHANGED <<caller, args, image, catalog, format, trimmed, url, ret,
                   env, ncalls, stdout>>

\* line 24, the blocked thread resumes: data is bound to the bytes read,
\* or the fault leaves getsourcelist (nothing catches it).
Resume ==
    /\ pc = "L24wait"
    /\ resp # Pending
    /\ IF resp.kind = "body"
       THEN /\ data' = resp.bytes
            /\ pc' = "L25"
            /\ exc' = exc
       ELSE /\ data' = data
            /\ exc' = resp.err
            /\ pc' = "raised"
    /\ UNCHANGED <<caller, args, image, catalog, format, trimmed, url, ret,
                   env, ncalls, stdout>>

\* line 25: return data.decode('UTF-8')
DecodeReturn ==
    /\ pc = "L25"
    /\ LET r == Decode(data)
       IN  IF r.ok
           THEN /\ ret' = Some(r.text)
                /\ exc' = exc
                /\ pc' = "returned"
           ELSE /\ ret' = ret
                /\ exc' = "UnicodeDecodeError"
                /\ pc' = "raised"
    /\ UNCHANGED <<caller, args, locals, env, ncalls, stdout>>

\* line 27: data = getsourcelist("hst_8992_52_acs_wfc_f606w")
ScriptCall ==
    /\ caller = "module"
    /\ pc = "L27"
    /\ Call(ScriptArgs)
    /\ NewCall
    /\ UNCHANGED <<caller, sent, ngets, stdout>>

\* lines 27-28: the call has returned, its value is bound and printed;
\* print writes the text and a newline, and the script ends.
ScriptPrint ==
    /\ caller = "module"
    /\ pc = "returned"
    /\ stdout' = stdout \o ret[1] \o <<10>>
    /\ pc' = "done"
    /\ UNCHANGED <<caller, args, locals, ret, exc, env, ncalls>>

\* Mutation: the failure is caught and an empty result is printed.
ScriptAbortCaught ==
    /\ caller = "module"
    /\ pc = "raised"
    /\ stdout' = stdout \o <<10>>
    /\ pc' = "done"
    /\ UNCHANGED <<caller, args, locals, ret, exc, env, ncalls>>

\* line 27: the exception is not handled at the top level; the interpreter
\* prints the traceback to standard error and exits.
ScriptAbort ==
    /\ caller = "module"
    /\ pc = "raised"
    /\ pc' = "error"
    /\ UNCHANGED <<caller, args, locals, ret, exc, env, ncalls, stdout>>

\* A caller that uses getsourcelist as a function calls it, after an
\* earlier call has returned or raised, with arguments of its choosing.
HarnessCall(a) ==
    /\ caller = "harness"
    /\ pc \in {"idle", "returned", "raised"}
    /\ ncalls < MaxCalls
    /\ Call(a)
    /\ NewCall
    /\ UNCHANGED <<caller, sent, ngets, stdout>>

\* The steps the Python interpreter takes on its own.
Interpreter ==
    \/ BuildUrl
    \/ TestTrimmed
    \/ AppendIgnoreFlag
    \/ Urlopen
    \/ Resume
    \/ DecodeReturn
    \/ ScriptCall
    \/ ScriptPrint
    \/ ScriptAbort

Next ==
    \/ Interpreter
    \/ \E b \in Bodies : TransportRespond(b)
    \/ \E e \in Faults : TransportRaise(e)
    \/ \E a \in ArgSets : HarnessCall(a)

Spec == Init /\ [][Next]_vars

\* The interpreter keeps running; nothing obliges the transport to answer
\* or a caller to call.
FairSpec == Spec /\ WF_vars(Interpreter)

\* ===================================================================
\* Properties
\* ===================================================================
\* The strings the interface is described with, written out on their own.
\* 'http://hla.stsci.edu/HLA/Catalogs/HLAcat.aspx?'
BaseEndpoint == <<"h","t","t","p",":","/","/","h","l","a",".","s","t","s","c","i",".","e","d","u","/","H","L","A","/","C","a","t","a","l","o","g","s","/","H","L","A","c","a","t",".","a","s","p","x","?">>
\* 'CATALOG='
QCatalog == <<"C","A","T","A","L","O","G","=">>
\* '&FORMAT='
QFormat == <<"&","F","O","R","M","A","T","=">>
\* '&IMAGE='
QImage == <<"&","I","M","A","G","E","=">>
\* '&IGNOREFLAG=T'
QIgnoreFlag == <<"&","I","G","N","O","R","E","F","L","A","G","=","T">>
\* 'http://hla.stsci.edu/HLA/Catalogs/HLAcat.aspx?CATALOG=DAO&FORMAT=text&IMAGE=hst_8992_52_acs_wfc_f606w'
ExampleUrl == <<"h","t","t","p",":","/","/","h","l","a",".","s","t","s","c","i",".","e","d","u","/","H","L","A","/","C","a","t","a","l","o","g","s","/","H","L","A","c","a","t",".","a","s","p","x","?","C","A","T","A","L","O","G","=","D","A","O","&","F","O","R","M","A","T","=","t","e","x","t","&","I","M","A","G","E","=","h","s","t","_","8","9","9","2","_","5","2","_","a","c","s","_","w","f","c","_","f","6","0","6","w">>
\* "hst_8992_52_acs_wfc_f606w", "DAO", "text"
ExampleImage == <<"h","s","t","_","8","9","9","2","_","5","2","_","a","c","s","_","w","f","c","_","f","6","0","6","w">>
ExampleCatalog == <<"D","A","O">>
ExampleFormat == <<"t","e","x","t">>

\* sub occurs in s
Contains(s, sub) ==
    \E i \in 1..(Len(s) - Len(sub) + 1) : SubSeq(s, i, i + Len(sub) - 1) = sub

\* UTF-8 as the Unicode standard defines it, from the encoding side: the
\* bytes of one scalar value, and the byte strings that are the encoding of
\* some text.
IsScalar(cp) == (cp >= 0 /\ cp <= 55295) \/ (cp >= 57344 /\ cp <= 1114111)

Utf8Encode1(cp) ==
    IF cp <= 127 THEN <<cp>>
    ELSE IF cp <= 2047 THEN <<192 + (cp \div 64), 128 + (cp % 64)>>
    ELSE IF cp <= 65535
         THEN <<224 + (cp \div 4096), 128 + ((cp \div 64) % 64), 128 + (cp % 64)>>
    ELSE <<240 + (cp \div 262144), 128 + ((cp \div 4096) % 64),
           128 + ((cp \div 64) % 64), 128 + (cp % 64)>>

RECURSIVE Utf8Encode(_)
Utf8Encode(t) == IF t = <<>> THEN <<>> ELSE Utf8Encode1(Head(t)) \o Utf8Encode(Tail(t))

\* The value the payload bits of a one- to four-byte unit spell.
Payload(u) ==
    CASE Len(u) = 1 -> u[1]
      [] Len(u) = 2 -> (u[1] % 32) * 64 + (u[2] % 64)
      [] Len(u) = 3 -> (u[1] % 16) * 4096 + (u[2] % 64) * 64 + (u[3] % 64)
      [] OTHER -> (u[1] % 8) * 262144 + (u[2] % 64) * 4096 + (u[3] % 64) * 64 + (u[4] % 64)

RECURSIVE WellFormedUtf8(_)
WellFormedUtf8(b) ==
    \/ b = <<>>
    \/ \E k \in 1..(IF Len(b) < 4 THEN Len(b) ELSE 4) :
          LET u == SubSeq(b, 1, k)
          IN  /\ IsScalar(Payload(u))
              /\ Utf8Encode1(Payload(u)) = u
              /\ WellFormedUtf8(SubSeq(b, k + 1, Len(b)))

\* The call has handed its GET to the transport (and may have ended since).
PastUrlopen == pc \in {"L24wait", "L25", "returned", "raised", "done", "error"}
\* The call has ended, by returning or by raising.
Ended == pc \in {"returned", "raised", "done", "error"}
Failed == pc \in {"raised", "error"}
Returned == pc \in {"returned", "done"}

\* C1: the URL passed to the transport is the fixed base, then
\* CATALOG=<catalog>&FORMAT=<format>&IMAGE=<image> in that order, then nothing
\* when trimmed is true and '&IGNOREFLAG=T' when it is false.
C1_UrlContract ==
    PastUrlopen =>
        sent = Some(BaseEndpoint \o QCatalog \o catalog \o QFormat \o format
                    \o QImage \o image
                    \o (IF trimmed THEN <<>> ELSE QIgnoreFlag))

C1_Witness ==
    /\ pc = "returned" /\ gets = 1
    /\ ~trimmed
    /\ catalog = <<"S","E","X">> /\ format = <<"j","s","o","n">>
    /\ image = ExampleImage

\* C2 as claimed: the URL holds '&IGNOREFLAG=T' exactly when trimmed is false,
\* whatever image, catalog and format are.
C2_FlagIffNotTrimmed ==
    PastUrlopen => (Contains(sent[1], QIgnoreFlag) <=> ~trimmed)

\* C2, amended: the URL holds '&IGNOREFLAG=T' exactly when trimmed is false or
\* one of image, catalog and format holds it already.
C2_FlagIffNotTrimmedOrGiven ==
    PastUrlopen =>
        (Contains(sent[1], QIgnoreFlag) <=>
            \/ ~trimmed
            \/ Contains(image, QIgnoreFlag)
            \/ Contains(catalog, QIgnoreFlag)
            \/ Contains(format, QIgnoreFlag))

C2_Witness ==
    /\ PastUrlopen
    /\ trimmed
    /\ Contains(image, QIgnoreFlag) /\ ~Contains(format, QIgnoreFlag)
    /\ Contains(sent[1], QIgnoreFlag)

\* C3: when the GET raises a fault, the call ends with that fault, returns
\* nothing, and exactly one GET was attempted during the call.
C3_FaultPropagatesNoRetry ==
    resp.kind = "fault" =>
        /\ gets = 1
        /\ ret = None
        /\ pc \in {"L24wait", "raised", "error"}
        /\ Ended => exc = resp.err

C3_Witness ==
    /\ caller = "harness" /\ pc = "raised"
    /\ resp = FaultResp("timeout") /\ exc = "timeout"

\* C4: a body that is not valid UTF-8 makes the call fail with a decoding
\* error; no text is ever returned for it.
C4_InvalidUtf8Fails ==
    (resp.kind = "body" /\ ~WellFormedUtf8(resp.bytes)) =>
        /\ ret = None
        /\ pc \in {"L24wait", "L25", "raised", "error"}
        /\ Ended => exc = "UnicodeDecodeError"

C4_Witness ==
    /\ pc = "raised" /\ exc = "UnicodeDecodeError"
    /\ resp = BodyResp(<<237, 160, 128>>)

\* C5: a valid UTF-8 body is returned as the text whose UTF-8 encoding is the
\* whole body, nothing removed or added; b"abc" gives "abc".
C5_ValidUtf8Returned ==
    (resp.kind = "body" /\ WellFormedUtf8(resp.bytes)) =>
        /\ exc = "none"
        /\ pc \in {"L24wait", "L25", "returned", "done"}
        /\ Ended =>
              /\ ret # None
              /\ Utf8Encode(ret[1]) = resp.bytes
              /\ (resp.bytes = <<97, 98, 99>> => ret[1] = <<97, 98, 99>>)

C5_Witness ==
    /\ pc = "returned"
    /\ resp = BodyResp(<<239, 187, 191, 97>>)
    /\ ret = Some(<<65279, 97>>)

\* C6: the example image with catalog DAO and format text (the defaults) gives
\* exactly the example URL when trimmed is true (the default), and that URL
\* followed by '&IGNOREFLAG=T' when trimmed is false.
C6_ExampleUrl ==
    (/\ PastUrlopen
     /\ args.image = ExampleImage
     /\ args.catalog \in {None, Some(ExampleCatalog)}
     /\ args.format \in {None, Some(ExampleFormat)}) =>
        /\ args.trimmed \in {None, Some(TRUE)} => sent = Some(ExampleUrl)
        /\ args.trimmed = Some(FALSE) => sent = Some(ExampleUrl \o QIgnoreFlag)

C6_Witness ==
    /\ caller = "harness" /\ pc = "L24wait"
    /\ args = [image |-> ExampleImage, catalog |-> None, format |-> None,
               trimmed |-> Some(FALSE)]

\* C7: nothing is validated: a call never fails before its GET is issued, it
\* fails only with a transport fault or a decoding error, and catalog, format
\* and image stand in the URL as they were given, character for character.
C7_NoValidation ==
    LET c0 == Len(BaseEndpoint) + Len(QCatalog)
        f0 == c0 + Len(catalog) + Len(QFormat)
        i0 == f0 + Len(format) + Len(QImage)
    IN  /\ exc \in {"none", "UnicodeDecodeError"} \cup Faults
        /\ (Failed \/ exc # "none") => gets = 1
        /\ pc \in {"L22", "L23", "L24"} => exc = "none"
        /\ PastUrlopen =>
              /\ gets = 1
              /\ SubSeq(sent[1], c0 + 1, c0 + Len(catalog)) = catalog
              /\ SubSeq(sent[1], f0 + 1, f0 + Len(format)) = format
              /\ SubSeq(sent[1], i0 + 1, i0 + Len(image)) = image

C7_Witness ==
    /\ pc = "L24wait" /\ gets = 1
    /\ catalog = <<"X"," ","Z">>
    /\ format = <<"j","&","I","G","N","O","R","E","F","L","A","G","=","T","%">>
    /\ image = <<>>

\* C8: run as a script, the module calls getsourcelist once, with the example
\* image and the defaults, so one GET is issued; the text returned is written
\* to standard output once, after the call has returned; a run whose call
\* fails ends in error and has written nothing.
C8_ScriptRun ==
    caller = "module" =>
        /\ ncalls <= 1 /\ ngets <= 1
        /\ ncalls = 1 => (args = ScriptArgs /\ image = ExampleImage)
        /\ PastUrlopen => (ncalls = 1 /\ ngets = 1)
        /\ pc = "done" => (ret # None /\ exc = "none" /\ stdout = ret[1] \o <<10>>)
        /\ pc # "done" => stdout = <<>>
        /\ exc # "none" => pc \in {"raised", "error"}
        /\ pc = "error" => (exc # "none" /\ ret = None)

C8_Witness ==
    /\ caller = "module" /\ pc = "done"
    /\ stdout = <<97, 98, 99, 10>>

\* C9: getsourcelist keeps nothing between calls: whatever calls came before,
\* a call sends the URL its own parameters give and issues its own GET, and
\* that GET is all it does to the environment.
C9_Stateless ==
    caller = "harness" =>
        /\ stdout = <<>>
        /\ pc \in {"L21", "L22", "L23", "L24"} => (gets = 0 /\ ngets = ncalls - 1)
        /\ PastUrlopen =>
              /\ gets = 1
              /\ ngets = ncalls
              /\ sent = Some(url)
              /\ (url = BaseEndpoint \o QCatalog \o catalog \o QFormat \o format
                          \o QImage \o image
                  \/ url = BaseEndpoint \o QCatalog \o catalog \o QFormat \o format
                          \o QImage \o image \o QIgnoreFlag)

C9_Witness ==
    /\ caller = "harness" /\ pc = "returned"
    /\ ncalls = 2 /\ ngets = 2

\* C10: once the transport has answered or raised, the call ends; while it has
\* done neither, the call stays blocked: it neither returns nor fails.
C10_BlocksUntilTransport ==
    /\ [][(pc = "L24wait" /\ resp = Pending) => pc' = "L24wait"]_vars
    /\ (pc = "L24wait" /\ resp # Pending) ~> Ended

C10_Witness ==
    /\ caller = "harness" /\ pc = "raised"
    /\ resp = FaultResp("URLError") /\ gets = 1

====
